---- MODULE Spec2Model ----
(***************************************************************************)
(* FootprintService (src/api/services/FootprintService.js): the adapter    *)
(* between the footprints API and Mongoose.  The store is the set of       *)
(* Mongoose collections; every public method is one action that runs the   *)
(* whole promise chain of the method against the store.                    *)
(*                                                                         *)
(* Store primitives follow Mongoose 4: Model.update(cond, doc) without     *)
(* { multi: true } changes the first matching document only;               *)
(* Model.remove(cond) removes every matching document; find() returns the  *)
(* documents in natural (insertion = id) order.  Ids are primitive values  *)
(* (Number ids), so that _.difference compares them by value.              *)
(*                                                                         *)
(* A second specification, SpecConc, runs two calls concurrently: every    *)
(* store round trip of a promise chain is one step, and the steps of the   *)
(* two calls interleave.  There record.save() sends what Mongoose sends:   *)
(* after an array push the atomic push of the new element onto the stored  *)
(* array, after an assignment the new value of the assigned path.          *)
(***************************************************************************)
EXTENDS Integers, Sequences, FiniteSets, TLC

VARIABLES store, nextId, last, prev, pre, calls, procs

vars == <<store, nextId, last, prev, pre, calls, procs>>

-----------------------------------------------------------------------------
(* Bounds *)

\* the store hands out the ids FirstFreeId .. MaxId
MaxId == 5
\* the defaultLimit a caller passes in options
LimitChoice == 2

-----------------------------------------------------------------------------
(* JavaScript values *)

\* null / undefined / an absent id: falsy
Null == 0
\* the value of an arrow function whose body is a block without return
Undefined == [undefined |-> TRUE]

Vals == {"a", "b"}
\* no constraint on a field (the key is absent from the filter / values)
Absent == "*"

RECURSIVE SortedSeq(_)
\* the elements of a finite set of integers in increasing order
SortedSeq(S) ==
  IF S = {} THEN <<>>
  ELSE LET m == CHOOSE x \in S : \A y \in S : x <= y
       IN  <<m>> \o SortedSeq(S \ {m})

Range(s) == {s[i] : i \in 1 .. Len(s)}

Take(s, n) == IF n >= Len(s) THEN s ELSE SubSeq(s, 1, n)

RECURSIVE SeqMinus(_, _)
\* _.difference(array, values): the elements of array not in values, in order
SeqMinus(s, S) ==
  IF s = <<>> THEN <<>>
  ELSE IF Head(s) \in S THEN SeqMinus(Tail(s), S)
       ELSE <<Head(s)>> \o SeqMinus(Tail(s), S)

-----------------------------------------------------------------------------
(* The registries and the schemas (external collaborators) *)

\* app.orm and app.packs.mongoose.orm; "Group" resolves through the second only
AppOrm == {"User", "Tag"}
PackOrm == {"User", "Tag", "Group"}
Registered == AppOrm \cup PackOrm
\* "Ghost" and "Icon" resolve in neither registry
NoModel == ""

\* model.schema.paths: field -> [instance, ref]; ref "" when options.ref is absent
SchemaPaths(model) ==
  IF model = "User"
    THEN [tags   |-> [instance |-> "Array",    ref |-> "Tag"],
          avatar |-> [instance |-> "ObjectID", ref |-> "Tag"],
          value  |-> [instance |-> "String",   ref |-> ""]]
  ELSE IF model = "Group"
    THEN [tags   |-> [instance |-> "Array",    ref |-> "Tag"],
          avatar |-> [instance |-> "ObjectID", ref |-> "Icon"],
          value  |-> [instance |-> "String",   ref |-> ""]]
  ELSE [value |-> [instance |-> "String", ref |-> ""]]

NoDefinition == [instance |-> "", ref |-> ""]

\* a lookup that falls back to a default model for an unknown name
_getModel_default(modelName) ==
  IF modelName \in AppOrm THEN modelName
  ELSE IF modelName \in PackOrm THEN modelName
  ELSE "Tag"

_getModel(modelName) ==
  IF modelName \in AppOrm THEN modelName
  ELSE IF modelName \in PackOrm THEN modelName
  ELSE NoModel

_getReferenceDefinition(model, field) ==
  IF model = NoModel THEN NoDefinition
  ELSE IF field \notin DOMAIN SchemaPaths(model) THEN NoDefinition
  ELSE SchemaPaths(model)[field]

_getReferenceModelName(model, reference) ==
  LET ref == _getReferenceDefinition(model, reference)
  IN  IF ref = NoDefinition THEN ""
      ELSE IF ref.ref = "" THEN ""
      ELSE ref.ref

-----------------------------------------------------------------------------
(* Documents, criteria, options *)

\* a document: every model has a value field; parents have tags and avatar
Doc(id, v, t, a) == [_id |-> id, value |-> v, tags |-> t, avatar |-> a]

\* record[field] of a loaded document
Field(doc, f) == IF f = "tags" THEN doc.tags ELSE doc.avatar

\* a bare scalar criteria (a primary key)
Scalar(id) == [plain |-> FALSE, id |-> id, hasId |-> FALSE, ids |-> {}, value |-> Absent]
\* a plain-object criteria without an _id key
ByValue(v) == [plain |-> TRUE, id |-> Null, hasId |-> FALSE, ids |-> {}, value |-> v]
\* a plain-object criteria { _id: ..., value: ... }; S is the set of ids _id admits
ByIds(S, v) == [plain |-> TRUE, id |-> Null, hasId |-> TRUE, ids |-> S, value |-> v]

\* _.extend(query, criteria): the keys of criteria override those of query
Extend(query, criteria) ==
  IF ~criteria.plain THEN query
  ELSE [plain |-> TRUE, id |-> Null,
        hasId |-> query.hasId \/ criteria.hasId,
        ids   |-> IF criteria.hasId THEN criteria.ids ELSE query.ids,
        value |-> IF criteria.value # Absent THEN criteria.value ELSE query.value]

\* options: findOne and defaultLimit (0 when absent)
Options(f, l) == [findOne |-> f, defaultLimit |-> l]
NoOptions == Options(FALSE, 0)

\* _.defaultsDeep({}, options, config...).defaultLimit
ModelOptionsLimit(options, cfg) ==
  IF options.defaultLimit # 0 THEN options.defaultLimit ELSE cfg

\* results of a call
ResOne(d) == [kind |-> "one", items |-> <<d>>]
ResList(s) == [kind |-> "list", items |-> s]
ResNull == [kind |-> "null", items |-> <<>>]
ResUndefined == [kind |-> "undefined", items |-> <<>>]
ResNone == [kind |-> "none", items |-> <<>>]

OK == "ok"
ModelNotFound == "No model found"
ParentIdMissing == "No parentId provided"
ReferenceNotFound == "No such reference exist"
ParentRecordNotFound == "No parent record found"
ChildCreationFailed == "No _id for child record"
TypeError == "TypeError"

-----------------------------------------------------------------------------
(* Store primitives (Mongoose Model API) on one collection: id -> document *)

Matches(doc, filter) ==
  /\ filter.hasId => doc._id \in filter.ids
  /\ filter.value # Absent => doc.value = filter.value

MatchingIds(coll, filter) == {i \in DOMAIN coll : Matches(coll[i], filter)}

\* a find that ignores the limit
ModelFind_unlimited(coll, filter, limit) ==
  LET all == SortedSeq(MatchingIds(coll, filter))
  IN  [i \in 1 .. Len(all) |-> coll[all[i]]]

\* Model.find(filter).limit(limit).exec(); limit 0: no limit
ModelFind(coll, filter, limit) ==
  LET all == SortedSeq(MatchingIds(coll, filter))
      cut == IF limit # 0 THEN Take(all, limit) ELSE all
  IN  [i \in 1 .. Len(cut) |-> coll[cut[i]]]

\* Model.findOne({ _id: id }).exec(): the document, or null
ModelFindOne(coll, id) ==
  IF id \in DOMAIN coll THEN ResOne(coll[id]) ELSE ResNull

\* an insert that stores the default value instead of the given one
ModelCreate_blank(coll, id, v) ==
  [i \in DOMAIN coll \cup {id} |->
     IF i = id THEN Doc(id, "a", <<>>, Null) ELSE coll[i]]

\* Model.create(values) for one value set
ModelCreate(coll, id, v) ==
  [i \in DOMAIN coll \cup {id} |->
     IF i = id THEN Doc(id, v, <<>>, Null) ELSE coll[i]]

\* Model.update(filter, values): no multi option, the first match only
ModelUpdate(coll, filter, v) ==
  LET m == MatchingIds(coll, filter)
  IN  IF m = {} \/ v = Absent THEN coll
      ELSE LET first == SortedSeq(m)[1]
           IN  [coll EXCEPT ![first].value = v]

\* a removal that stops after the first match (justOne)
ModelRemove_one(coll, filter) ==
  LET m == MatchingIds(coll, filter)
  IN  IF m = {} THEN coll
      ELSE [i \in DOMAIN coll \ {SortedSeq(m)[1]} |-> coll[i]]

\* Model.remove(filter): every match
ModelRemove(coll, filter) ==
  [i \in DOMAIN coll \ MatchingIds(coll, filter) |-> coll[i]]

\* record.save() of a loaded parent after record[field] was assigned
Save(coll, doc) ==
  IF doc._id \in DOMAIN coll
    THEN [coll EXCEPT ![doc._id] = doc]
    ELSE coll

-----------------------------------------------------------------------------
(* The public methods.  Each takes the state s = [store, nextId, calls] and *)
(* returns the state after the call with the outcome: err (OK or the        *)
(* rejection) and res (the value the promise resolves to).                  *)

Out(s, err, res) ==
  [store |-> s.store, nextId |-> s.nextId, calls |-> s.calls, err |-> err, res |-> res]

\* the state after a store call prim on the collection of model
Called(s, model, prim, coll) ==
  [store  |-> [s.store EXCEPT ![model] = coll],
   nextId |-> s.nextId,
   calls  |-> Append(s.calls, <<model, prim>>)]

State(o) == [store |-> o.store, nextId |-> o.nextId, calls |-> o.calls]

\* a value set, or an array of value sets (batch create)
One(v) == [batch |-> FALSE, items |-> <<v>>]
Batch(vs) == [batch |-> TRUE, items |-> vs]

RECURSIVE InsertAll(_, _, _)
\* the collection after inserting the value sets vs with ids id, id + 1, ...
InsertAll(coll, id, vs) ==
  IF vs = <<>> THEN coll
  ELSE InsertAll(ModelCreate(coll, id, Head(vs)), id + 1, Tail(vs))

create(s, modelName, values, options) ==
  LET Model == _getModel(modelName)
  IN  IF Model = NoModel THEN Out(s, ModelNotFound, ResNone)
      ELSE LET n    == Len(values.items)
               coll == InsertAll(s.store[Model], s.nextId, values.items)
               docs == [i \in 1 .. n |-> coll[s.nextId + i - 1]]
               t    == [Called(s, Model, "create", coll) EXCEPT !.nextId = s.nextId + n]
           IN  Out(t, OK, IF values.batch THEN ResList(docs) ELSE ResOne(docs[1]))

\* the key of Model.findOne({ _id: criteria }): the scalar itself; a plain
\* object casts to its own _id when it has one, and does not cast otherwise
\* a cast that accepts scalars only
CastsToId_scalar(criteria) == ~criteria.plain

CastsToId(criteria) ==
  ~criteria.plain \/ (criteria.hasId /\ Cardinality(criteria.ids) = 1)

FindOneKey(criteria) ==
  IF ~criteria.plain THEN criteria.id
  ELSE CHOOSE i \in criteria.ids : TRUE

CastError == "CastError"

find(s, cfg, modelName, criteria, options) ==
  LET Model == _getModel(modelName)
      limit == ModelOptionsLimit(options, cfg)
  IN  IF Model = NoModel THEN Out(s, ModelNotFound, ResNone)
      ELSE IF ~criteria.plain \/ options.findOne
        THEN LET t == Called(s, Model, "findOne", s.store[Model])
             IN  IF CastsToId(criteria)
                   THEN Out(t, OK, ModelFindOne(s.store[Model], FindOneKey(criteria)))
                   ELSE Out(t, CastError, ResNone)
        ELSE Out(Called(s, Model, "find", s.store[Model]), OK,
                 ResList(ModelFind(s.store[Model], criteria, limit)))

\* { _id: { $in: ids } }
IdIn(S) == ByIds(S, Absent)

DocIds(docs) == {docs[i]._id : i \in 1 .. Len(docs)}

update(s, cfg, modelName, criteria, values, options) ==
  LET Model == _getModel(modelName)
      limit == ModelOptionsLimit(options, cfg)
  IN  IF Model = NoModel THEN Out(s, ModelNotFound, ResNone)
      ELSE IF criteria.plain
        THEN LET s1  == Called(s, Model, "find", s.store[Model])
                 ids == DocIds(ModelFind(s.store[Model], criteria, limit))
                 s2  == Called(s1, Model, "update",
                               ModelUpdate(s1.store[Model], IdIn(ids), values))
                 s3  == Called(s2, Model, "find", s2.store[Model])
             IN  Out(s3, OK, ResList(ModelFind(s2.store[Model], IdIn(ids), 0)))
        ELSE LET s1 == Called(s, Model, "update",
                              ModelUpdate(s.store[Model], IdIn({criteria.id}), values))
                 s2 == Called(s1, Model, "findOne", s1.store[Model])
             IN  Out(s2, OK, ModelFindOne(s1.store[Model], criteria.id))

destroy(s, modelName, criteria, options) ==
  LET Model == _getModel(modelName)
  IN  IF Model = NoModel THEN Out(s, ModelNotFound, ResNone)
      ELSE IF criteria.plain
        THEN LET s1      == Called(s, Model, "find", s.store[Model])
                 records == ModelFind(s.store[Model], criteria, 0)
                 s2      == Called(s1, Model, "remove",
                                   ModelRemove(s1.store[Model], criteria))
             IN  Out(s2, OK, ResList(records))
        ELSE LET s1      == Called(s, Model, "findOne", s.store[Model])
                 records == ModelFindOne(s.store[Model], criteria.id)
                 s2      == Called(s1, Model, "remove",
                                   ModelRemove(s1.store[Model], IdIn({criteria.id})))
             IN  Out(s2, OK, records)

-----------------------------------------------------------------------------
(* The association methods *)

\* record[childAttributeName] = value on the loaded parent
Assign(record, f, value) ==
  IF f = "tags" THEN [record EXCEPT !.tags = value]
  ELSE [record EXCEPT !.avatar = value]

\* a link that puts the new id in front of the array (unshift)
Link_prepend(childDefinition, record, f, childId) ==
  IF childDefinition.instance = "Array"
    THEN Assign(record, f, <<childId>> \o Field(record, f))
    ELSE Assign(record, f, childId)

\* a link that assigns a single field only when it is empty
Link_keep(childDefinition, record, f, childId) ==
  IF childDefinition.instance = "Array"
    THEN Assign(record, f, Append(Field(record, f), childId))
    ELSE IF Field(record, f) = Null THEN Assign(record, f, childId) ELSE record

\* the parent after the created child is linked: push on an array field,
\* assignment on a single one
Link(childDefinition, record, f, childId) ==
  IF childDefinition.instance = "Array"
    THEN Assign(record, f, Append(Field(record, f), childId))
    ELSE Assign(record, f, childId)

\* !record[childAttributeName]: an array is truthy, also when it is empty
IsEmptyRef(record, f) == IF f = "tags" THEN FALSE ELSE record.avatar = Null

\* _.isArray(record[childAttributeName])
IsArrayRef(record, f) == f = "tags"

\* the checks every association method starts with; OK when they all pass
Preamble(parentModelName, parentId, childAttributeName) ==
  LET Model == _getModel(parentModelName)
  IN  IF Model = NoModel THEN ModelNotFound
      ELSE IF parentId = Null THEN ParentIdMissing
      ELSE IF _getReferenceModelName(Model, childAttributeName) = "" THEN ReferenceNotFound
      ELSE OK

createAssociation(s, parentModelName, parentId, childAttributeName, values, options) ==
  LET Model           == _getModel(parentModelName)
      checked         == Preamble(parentModelName, parentId, childAttributeName)
      childModelName  == _getReferenceModelName(Model, childAttributeName)
      childDefinition == _getReferenceDefinition(Model, childAttributeName)
  IN  IF checked # OK THEN Out(s, checked, ResNone)
      ELSE
        LET s1     == Called(s, Model, "findOne", s.store[Model])
            loaded == ModelFindOne(s.store[Model], parentId)
        IN  IF loaded = ResNull THEN Out(s1, ParentRecordNotFound, ResNone)
            ELSE
              LET record  == loaded.items[1]
                  created == create(s1, childModelName, values, options)
              IN  IF created.err # OK THEN created
                  ELSE IF created.res.kind # "one"
                    THEN Out(State(created), ChildCreationFailed, ResNone)
                  ELSE
                    LET child == created.res.items[1]
                        saved == Link(childDefinition, record, childAttributeName, child._id)
                        s2    == State(created)
                        s3    == Called(s2, Model, "save", Save(s2.store[Model], saved))
                    IN  Out(s3, OK, ResOne(child))

findAssociation(s, cfg, parentModelName, parentId, childAttributeName, criteria, options) ==
  LET Model          == _getModel(parentModelName)
      checked        == Preamble(parentModelName, parentId, childAttributeName)
      childModelName == _getReferenceModelName(Model, childAttributeName)
  IN  IF checked # OK THEN Out(s, checked, ResNone)
      ELSE IF childModelName \notin AppOrm THEN Out(s, ReferenceNotFound, ResNone)
      ELSE
        LET loaded == find(s, cfg, "User", Scalar(parentId), options)
        IN  IF loaded.err # OK THEN loaded
            ELSE IF loaded.res = ResNull THEN Out(State(loaded), ParentRecordNotFound, ResNone)
            ELSE
              LET record == loaded.res.items[1]
              IN  IF IsEmptyRef(record, childAttributeName)
                    THEN Out(State(loaded), OK, ResList(<<>>))
                  ELSE
                    LET query == IF IsArrayRef(record, childAttributeName)
                                   THEN IdIn(Range(record.tags))
                                   ELSE IdIn({record.avatar})
                    IN  find(State(loaded), cfg, childModelName, Extend(query, criteria), NoOptions)

updateAssociation(s, cfg, parentModelName, parentId, childAttributeName, criteria, values, options) ==
  LET Model          == _getModel(parentModelName)
      checked        == Preamble(parentModelName, parentId, childAttributeName)
      childModelName == _getReferenceModelName(Model, childAttributeName)
  IN  IF checked # OK THEN Out(s, checked, ResNone)
      ELSE
        LET loaded == find(s, cfg, parentModelName, Scalar(parentId),
                           [options EXCEPT !.findOne = TRUE])
        IN  IF loaded.err # OK THEN loaded
            ELSE IF loaded.res = ResNull THEN Out(State(loaded), ParentRecordNotFound, ResNone)
            ELSE
              LET record == loaded.res.items[1]
              IN  IF IsEmptyRef(record, childAttributeName)
                    THEN Out(State(loaded), OK, ResNull)
                  ELSE
                    LET ids   == IF IsArrayRef(record, childAttributeName)
                                   THEN Range(record.tags)
                                   ELSE {record.avatar}
                        query == Extend(IdIn(ids), criteria)
                    IN  update(State(loaded), cfg, childModelName, query, values, NoOptions)

\* a child filter restricted to the ids the parent references
DestroyCriteria_own(record, criteria) == Extend(IdIn(Range(record.tags)), criteria)

\* the filter destroyAssociation finds the children of an array field with:
\* the caller's criteria as given
DestroyCriteria(record, criteria) == criteria

destroyAssociation(s, cfg, parentModelName, parentId, childAttributeName, criteria, options) ==
  LET Model          == _getModel(parentModelName)
      checked        == Preamble(parentModelName, parentId, childAttributeName)
      childModelName == _getReferenceModelName(Model, childAttributeName)
  IN  IF checked # OK THEN Out(s, checked, ResNone)
      ELSE
        LET loaded == find(s, cfg, parentModelName, Scalar(parentId), options)
        IN  IF loaded.err # OK THEN loaded
            ELSE IF loaded.res = ResNull THEN Out(State(loaded), ParentRecordNotFound, ResNone)
            ELSE
              LET record == loaded.res.items[1]
              IN  IF IsArrayRef(record, childAttributeName)
                    THEN
                      LET found == find(State(loaded), cfg, childModelName,
                                        DestroyCriteria(record, criteria), options)
                      IN  IF found.err # OK THEN found
                          ELSE IF found.res = ResNull THEN Out(State(found), OK, ResList(<<>>))
                          ELSE IF found.res.kind # "list" THEN Out(State(found), TypeError, ResNone)
                          ELSE
                            LET list    == found.res.items
                                ids     == [i \in 1 .. Len(list) |-> list[i]._id]
                                removed == destroy(State(found), childModelName,
                                                   IdIn(Range(ids)), NoOptions)
                                s2      == State(removed)
                                saved   == Assign(record, childAttributeName,
                                                  SeqMinus(record.tags, Range(ids)))
                                s3      == Called(s2, Model, "save", Save(s2.store[Model], saved))
                            IN  Out(s3, OK, ResList([i \in 1 .. Len(ids) |-> Undefined]))
                    ELSE
                      LET removed == destroy(State(loaded), childModelName,
                                             Scalar(record.avatar), options)
                          s2      == State(removed)
                          saved   == Assign(record, childAttributeName, Null)
                          s3      == Called(s2, Model, "save", Save(s2.store[Model], saved))
                      IN  IF removed.err # OK THEN removed
                          ELSE Out(s3, OK, ResUndefined)

-----------------------------------------------------------------------------
(* The state machine: one action per public method *)

\* the parents that exist from the start: User 1 and Group 2
FirstFreeId == 3

\* footprints.models.options.defaultLimit of the configuration: not set
ConfigDefaultLimit == 0

InitStore ==
  [m \in Registered |->
     IF m = "User" THEN (1 :> Doc(1, "a", <<>>, Null))
     ELSE IF m = "Group" THEN (2 :> Doc(2, "a", <<>>, Null))
     ELSE <<>>]

\* the arguments callers pass
CriteriaChoices ==
  {Scalar(FirstFreeId), ByValue(Absent), ByValue("a"), ByIds({FirstFreeId + 1}, Absent)}
OptionChoices == {NoOptions, Options(TRUE, 0), Options(FALSE, LimitChoice)}
LimitChoices == {NoOptions, Options(FALSE, LimitChoice)}
ValueChoices == {One("a"), One("b"), Batch(<<"a", "b">>)}

\* <<parentModelName, parentId, childAttributeName>> of the association calls:
\* the references of User 1 and Group 2, and calls that miss a prerequisite
Targets == {<<"User", 1, "tags">>, <<"User", 1, "avatar">>, <<"Group", 2, "tags">>}
Probes ==
  {<<"Ghost", 1, "tags">>, <<"Ghost", Null, "nope">>,
   <<"User", Null, "tags">>, <<"User", Null, "nope">>,
   <<"User", 1, "nope">>, <<"User", 1, "value">>,
   <<"User", 2, "tags">>, <<"User", 2, "nope">>,
   <<"Group", 1, "tags">>, <<"Group", 2, "avatar">>}

NoCall == [op |-> "none", model |-> "", parentId |-> Null, attr |-> "",
           criteria |-> ByValue(Absent), values |-> One("a"), options |-> NoOptions,
           err |-> OK, res |-> ResNone]

Call(op, model, parentId, attr, criteria, values, options, o) ==
  [op |-> op, model |-> model, parentId |-> parentId, attr |-> attr,
   criteria |-> criteria, values |-> values, options |-> options,
   err |-> o.err, res |-> o.res]

Start == [store |-> store, nextId |-> nextId, calls |-> <<>>]

\* no call is in progress: the caller has taken the outcome of the last one
Idle == last = NoCall

\* the state after a call with outcome o
Done(o, call) ==
  /\ store' = o.store
  /\ nextId' = o.nextId
  /\ calls' = o.calls
  /\ pre' = store
  /\ prev' = last
  /\ last' = call
  /\ UNCHANGED procs

\* no concurrent call is running
NoProcs == <<>>

Init ==
  /\ store = InitStore
  /\ nextId = FirstFreeId
  /\ last = NoCall
  /\ prev = NoCall
  /\ pre = InitStore
  /\ calls = <<>>
  /\ procs = NoProcs

CreateOn(m, v) ==
  /\ nextId + Len(v.items) - 1 <= MaxId
  /\ LET o == create(Start, m, v, NoOptions)
     IN  Done(o, Call("create", m, Null, "", ByValue(Absent), v, NoOptions, o))

Create ==
  /\ Idle
  /\ \/ \E v \in ValueChoices : CreateOn("Tag", v)
     \/ CreateOn("Ghost", One("a"))

FindOn(m, c, op) ==
  LET o == find(Start, ConfigDefaultLimit, m, c, op)
  IN  Done(o, Call("find", m, Null, "", c, One("a"), op, o))

\* a find is also the call that follows a destroy with the same arguments,
\* a find by primary key with the key as { _id: key } and findOne, and a
\* create with the primary key of the created record
Find ==
  \/ /\ Idle
     /\ \/ \E c \in CriteriaChoices, op \in OptionChoices : FindOn("Tag", c, op)
        \/ FindOn("Ghost", ByValue(Absent), NoOptions)
  \/ /\ last.op = "destroy"
     /\ FindOn(last.model, last.criteria, last.options)
  \/ /\ last.op = "find" /\ ~last.criteria.plain /\ prev = NoCall
     /\ FindOn(last.model, ByIds({last.criteria.id}, Absent), Options(TRUE, 0))
  \/ /\ last.op = "create" /\ last.err = OK /\ last.res.kind = "one"
     /\ FindOn(last.model, Scalar(last.res.items[1]._id), NoOptions)

UpdateOn(m, c, v, op) ==
  LET o == update(Start, ConfigDefaultLimit, m, c, v, op)
  IN  Done(o, Call("update", m, Null, "", c, One(v), op, o))

Update ==
  /\ Idle
  /\ \/ \E c \in CriteriaChoices, v \in Vals, op \in LimitChoices : UpdateOn("Tag", c, v, op)
     \/ UpdateOn("Ghost", ByValue(Absent), "a", NoOptions)

DestroyOn(m, c) ==
  LET o == destroy(Start, m, c, NoOptions)
  IN  Done(o, Call("destroy", m, Null, "", c, One("a"), NoOptions, o))

Destroy ==
  /\ Idle
  /\ \/ \E c \in CriteriaChoices : DestroyOn("Tag", c)
     \/ DestroyOn("Ghost", ByValue(Absent))

CreateAssociationOn(t, v) ==
  /\ nextId + Len(v.items) - 1 <= MaxId
  /\ LET o == createAssociation(Start, t[1], t[2], t[3], v, NoOptions)
     IN  Done(o, Call("createAssociation", t[1], t[2], t[3], ByValue(Absent), v, NoOptions, o))

CreateAssociation ==
  /\ Idle
  /\ \/ \E t \in Targets, v \in ValueChoices : CreateAssociationOn(t, v)
     \/ \E t \in Probes : CreateAssociationOn(t, One("a"))

FindAssociationOn(t, c, op) ==
  LET o == findAssociation(Start, ConfigDefaultLimit, t[1], t[2], t[3], c, op)
  IN  Done(o, Call("findAssociation", t[1], t[2], t[3], c, One("a"), op, o))

FindAssociation ==
  /\ Idle
  /\ \/ \E t \in Targets, c \in CriteriaChoices : FindAssociationOn(t, c, NoOptions)
     \/ \E t \in Probes : FindAssociationOn(t, ByValue(Absent), NoOptions)

UpdateAssociationOn(t, c, v, op) ==
  LET o == updateAssociation(Start, ConfigDefaultLimit, t[1], t[2], t[3], c, v, op)
  IN  Done(o, Call("updateAssociation", t[1], t[2], t[3], c, One(v), op, o))

UpdateAssociation ==
  /\ Idle
  /\ \/ \E t \in Targets, c \in CriteriaChoices, v \in Vals : UpdateAssociationOn(t, c, v, NoOptions)
     \/ \E t \in Probes : UpdateAssociationOn(t, ByValue(Absent), "a", NoOptions)

DestroyAssociationOn(t, c, op) ==
  LET o == destroyAssociation(Start, ConfigDefaultLimit, t[1], t[2], t[3], c, op)
  IN  Done(o, Call("destroyAssociation", t[1], t[2], t[3], c, One("a"), op, o))

DestroyAssociation ==
  /\ Idle
  /\ \/ \E t \in Targets, c \in CriteriaChoices, op \in OptionChoices : DestroyAssociationOn(t, c, op)
     \/ \E t \in Probes : DestroyAssociationOn(t, ByValue("a"), NoOptions)

\* the caller takes the outcome; the next call starts from the store as it is
Return ==
  /\ ~Idle
  /\ last' = NoCall
  /\ prev' = NoCall
  /\ pre' = store
  /\ calls' = <<>>
  /\ UNCHANGED <<store, nextId, procs>>

Next ==
  \/ Return
  \/ Create
  \/ Find
  \/ Update
  \/ Destroy
  \/ CreateAssociation
  \/ FindAssociation
  \/ UpdateAssociation
  \/ DestroyAssociation

Spec == Init /\ [][Next]_vars

-----------------------------------------------------------------------------
(* Two concurrent calls: one step per store round trip *)

ProcIds == {1, 2}
Other(p) == 3 - p

\* a record not loaded yet
NoRecord == Doc(Null, "a", <<>>, Null)

\* a call in flight: its arguments, its position pc in the promise chain, and
\* the locals of the chain: the loaded parent (record), the ids found (ids),
\* the ids the destroy read (read) and removed (removed), the created child
Proc(kind, pc, model, parentId, attr, criteria, value) ==
  [kind |-> kind, pc |-> pc, model |-> model, parentId |-> parentId,
   attr |-> attr, criteria |-> criteria, value |-> value,
   record |-> NoRecord, ids |-> {}, read |-> {}, removed |-> {},
   child |-> Null, err |-> OK]

CreateAssociationCall(model, parentId, v) ==
  Proc("createAssociation", "load", model, parentId, "tags", ByValue(Absent), v)
DestroyAssociationCall(model, parentId, c) ==
  Proc("destroyAssociation", "load", model, parentId, "tags", c, "a")
DestroyCall(model, c) == Proc("destroy", "destroyFind", model, Null, "", c, "a")
CreateCall(model, v) == Proc("create", "create", model, Null, "", ByValue(Absent), v)

\* the pairs of calls that run concurrently
ProcChoices ==
  {<<CreateAssociationCall("User", 1, v), CreateAssociationCall("User", 1, w)>> :
     v \in Vals, w \in Vals}
  \cup {<<CreateAssociationCall("User", 1, v), CreateAssociationCall("Group", 2, "a")>> :
     v \in Vals}
  \cup {<<CreateAssociationCall("User", 1, v), DestroyAssociationCall("Group", 2, c)>> :
     v \in Vals, c \in {ByValue(Absent), ByValue("a")}}
  \cup {<<DestroyCall("Tag", c), CreateCall("Tag", v)>> :
     c \in {ByValue(Absent), ByValue("a")}, v \in Vals}

\* a store earlier calls leave behind: each parent references a child of its own
LinkedStore ==
  [m \in Registered |->
     IF m = "User" THEN (1 :> Doc(1, "a", <<FirstFreeId>>, Null))
     ELSE IF m = "Group" THEN (2 :> Doc(2, "a", <<FirstFreeId + 1>>, Null))
     ELSE (FirstFreeId :> Doc(FirstFreeId, "a", <<>>, Null))
          @@ (FirstFreeId + 1 :> Doc(FirstFreeId + 1, "b", <<>>, Null))]

InitConc ==
  /\ \/ store = InitStore /\ nextId = FirstFreeId
     \/ store = LinkedStore /\ nextId = FirstFreeId + 2
  /\ procs \in ProcChoices
  /\ last = NoCall
  /\ prev = NoCall
  /\ pre = InitStore
  /\ calls = <<>>

\* process p moves to pc with its locals changed
Goto(p, proc) ==
  /\ procs' = [procs EXCEPT ![p] = proc]
  /\ UNCHANGED <<last, prev, pre, calls>>

\* Model.findOne({ _id: parentId }) / this.find(parentModelName, parentId)
CLoad ==
  \E p \in ProcIds :
    /\ procs[p].pc = "load"
    /\ LET me     == procs[p]
           loaded == ModelFindOne(store[me.model], me.parentId)
       IN  IF loaded = ResNull
             THEN Goto(p, [me EXCEPT !.pc = "done", !.err = ParentRecordNotFound])
             ELSE Goto(p, [me EXCEPT !.record = loaded.items[1],
                                     !.pc = IF me.kind = "createAssociation"
                                              THEN "createChild" ELSE "findChildren"])
    /\ UNCHANGED <<store, nextId>>

\* this.create(childModelName, values, options)
CCreateChild ==
  \E p \in ProcIds :
    /\ procs[p].pc = "createChild"
    /\ nextId <= MaxId
    /\ LET me    == procs[p]
           child == _getReferenceModelName(_getModel(me.model), me.attr)
       IN  /\ store' = [store EXCEPT ![child] = ModelCreate(@, nextId, me.value)]
           /\ nextId' = nextId + 1
           /\ Goto(p, [me EXCEPT !.child = nextId, !.pc = "savePush"])

\* a save that writes the loaded record with the child linked, whole
SaveLinked_whole(coll, childDefinition, record, f, childId) ==
  Save(coll, Link(childDefinition, record, f, childId))

\* record[attr].push(child._id) or record[attr] = child._id, then
\* record.save(): the push is sent as an atomic push onto the stored array,
\* the assignment as the new value of the path
SaveLinked(coll, childDefinition, record, f, childId) ==
  IF record._id \notin DOMAIN coll THEN coll
  ELSE [coll EXCEPT ![record._id] =
          IF childDefinition.instance = "Array"
            THEN Assign(@, f, Append(Field(@, f), childId))
            ELSE Assign(@, f, childId)]

CSavePush ==
  \E p \in ProcIds :
    /\ procs[p].pc = "savePush"
    /\ LET me  == procs[p]
           def == _getReferenceDefinition(_getModel(me.model), me.attr)
       IN  /\ store' = [store EXCEPT ![me.model] =
                          SaveLinked(@, def, me.record, me.attr, me.child)]
           /\ Goto(p, [me EXCEPT !.pc = "done"])
    /\ UNCHANGED nextId

\* this.find(childModelName, criteria, options) of destroyAssociation
CFindChildren ==
  \E p \in ProcIds :
    /\ procs[p].pc = "findChildren"
    /\ LET me    == procs[p]
           child == _getReferenceModelName(_getModel(me.model), me.attr)
           list  == ModelFind(store[child], DestroyCriteria(me.record, me.criteria), 0)
       IN  Goto(p, [me EXCEPT !.ids = DocIds(list), !.pc = "destroyFind"])
    /\ UNCHANGED <<store, nextId>>

\* the model a destroy works on and the filter it is called with
DestroyModel(me) ==
  IF me.kind = "destroy" THEN me.model
  ELSE _getReferenceModelName(_getModel(me.model), me.attr)
DestroyFilter(me) == IF me.kind = "destroy" THEN me.criteria ELSE IdIn(me.ids)

\* destroy, first round trip: Model.find(criteria)
CDestroyFind ==
  \E p \in ProcIds :
    /\ procs[p].pc = "destroyFind"
    /\ LET me   == procs[p]
           list == ModelFind(store[DestroyModel(me)], DestroyFilter(me), 0)
       IN  Goto(p, [me EXCEPT !.read = DocIds(list), !.pc = "remove"])
    /\ UNCHANGED <<store, nextId>>

\* destroy, second round trip: Model.remove(criteria)
CRemove ==
  \E p \in ProcIds :
    /\ procs[p].pc = "remove"
    /\ LET me   == procs[p]
           m    == DestroyModel(me)
           coll == ModelRemove(store[m], DestroyFilter(me))
       IN  /\ store' = [store EXCEPT ![m] = coll]
           /\ Goto(p, [me EXCEPT !.removed = DOMAIN store[m] \ DOMAIN coll,
                                 !.pc = IF me.kind = "destroy"
                                          THEN "done" ELSE "saveDifference"])
    /\ UNCHANGED nextId

\* record[attr] = _.difference(record[attr], ids), then record.save()
SaveAssigned(coll, record, f, value) ==
  IF record._id \notin DOMAIN coll THEN coll
  ELSE [coll EXCEPT ![record._id] = Assign(@, f, value)]

CSaveDifference ==
  \E p \in ProcIds :
    /\ procs[p].pc = "saveDifference"
    /\ LET me == procs[p]
       IN  /\ store' = [store EXCEPT ![me.model] =
                          SaveAssigned(@, me.record, me.attr,
                                       SeqMinus(me.record.tags, me.ids))]
           /\ Goto(p, [me EXCEPT !.pc = "done"])
    /\ UNCHANGED nextId

\* Model.create(values) of create
CCreate ==
  \E p \in ProcIds :
    /\ procs[p].pc = "create"
    /\ nextId <= MaxId
    /\ LET me == procs[p]
       IN  /\ store' = [store EXCEPT ![me.model] = ModelCreate(@, nextId, me.value)]
           /\ nextId' = nextId + 1
           /\ Goto(p, [me EXCEPT !.child = nextId, !.pc = "done"])

NextConc ==
  \/ CLoad
  \/ CCreateChild
  \/ CSavePush
  \/ CFindChildren
  \/ CDestroyFind
  \/ CRemove
  \/ CSaveDifference
  \/ CCreate

SpecConc == InitConc /\ [][NextConc]_vars

-----------------------------------------------------------------------------
(* Vocabulary of the properties *)

AssociationOps ==
  {"createAssociation", "findAssociation", "updateAssociation", "destroyAssociation"}

\* the call op has completed successfully and its outcome is in last
Succeeded(op) == last.op = op /\ last.err = OK

\* the cardinality of the reference field of the last call
ArrayField == _getReferenceDefinition(_getModel(last.model), last.attr).instance = "Array"
SingleField == _getReferenceDefinition(_getModel(last.model), last.attr).instance = "ObjectID"
ChildModel == _getReferenceModelName(_getModel(last.model), last.attr)

\* the parent of the last call exists in its own collection
ParentExisted == last.parentId \in DOMAIN pre[last.model]
ParentBefore == pre[last.model][last.parentId]
ParentAfter == store[last.model][last.parentId]

\* every id held by a reference field of a parent is the id of an existing child
NoDangling(st) ==
  \A m \in {"User", "Group"} : \A p \in DOMAIN st[m] :
    /\ Range(st[m][p].tags) \subseteq DOMAIN st["Tag"]
    /\ m = "User" /\ st[m][p].avatar # Null => st[m][p].avatar \in DOMAIN st["Tag"]

\* the ids of the records of a result
ResultIds(res) == {res.items[i]._id : i \in 1 .. Len(res.items)}

\* C1: after an association operation completes successfully from a consistent
\* store, every id in a parent's reference field is the id of an existing
\* child, and the id of a created child is in its parent's field.
C1_ReferencesConsistent ==
  (last.op \in AssociationOps /\ last.err = OK /\ NoDangling(pre))
    => /\ NoDangling(store)
       /\ Succeeded("createAssociation") =>
            IF ArrayField
              THEN last.res.items[1]._id \in Range(ParentAfter.tags)
              ELSE last.res.items[1]._id = ParentAfter.avatar

\* C2: a call on a model name that does not resolve fails with ModelNotFound
\* and makes no store call: nothing is read and the store is as before.
C2_UnknownModelNoStoreCall ==
  (last.op # "none" /\ last.model \notin Registered)
    => /\ last.err = ModelNotFound
       /\ calls = <<>>
       /\ store = pre

\* all eight methods are covered by C2: the last of them to be called on the
\* unknown model, with the store already populated
C2_Witness ==
  /\ last.op = "destroyAssociation"
  /\ last.model = "Ghost"
  /\ last.err = ModelNotFound
  /\ DOMAIN store["Tag"] # {}

\* C3: a successful createAssociation on an array field creates the child,
\* leaves the parent's field equal to its previous ids followed by the new id,
\* and returns the created child.
C3_CreateAssociationAppends ==
  (Succeeded("createAssociation") /\ ArrayField)
    => /\ last.res.kind = "one"
       /\ LET child == last.res.items[1]
          IN  /\ child._id \notin DOMAIN pre[ChildModel]
              /\ child._id \in DOMAIN store[ChildModel]
              /\ store[ChildModel][child._id] = child
              /\ child.value = last.values.items[1]
              /\ ParentAfter.tags = ParentBefore.tags \o <<child._id>>

C3_Witness ==
  /\ Succeeded("createAssociation")
  /\ ArrayField
  /\ Len(ParentBefore.tags) >= 2
  /\ Len(ParentAfter.tags) = Len(ParentBefore.tags) + 1

\* C4: a successful createAssociation on a single field leaves the parent's
\* field equal to the new child's id, whatever it held before.
C4_CreateAssociationOverwrites ==
  (Succeeded("createAssociation") /\ SingleField)
    => /\ last.res.kind = "one"
       /\ last.res.items[1]._id \notin DOMAIN pre[ChildModel]
       /\ last.res.items[1]._id \in DOMAIN store[ChildModel]
       /\ ParentAfter.avatar = last.res.items[1]._id

C4_Witness ==
  /\ Succeeded("createAssociation")
  /\ SingleField
  /\ ParentBefore.avatar # Null
  /\ ParentAfter.avatar # ParentBefore.avatar

\* the children the parent of the last call referenced before the call
ReferencedBefore ==
  IF ArrayField THEN Range(ParentBefore.tags) \cap DOMAIN pre[ChildModel]
  ELSE {ParentBefore.avatar} \cap DOMAIN pre[ChildModel]

\* the referenced children that matched the criteria of the last call
MatchedBefore == {i \in ReferencedBefore : Matches(pre[ChildModel][i], last.criteria)}

\* the criteria of the last call matched referenced children only
OnlyReferencedMatch ==
  \A i \in DOMAIN pre[ChildModel] :
    Matches(pre[ChildModel][i], last.criteria) => i \in ReferencedBefore

\* C5: destroyAssociation on an array field with a criteria that matches K of
\* the referenced children removes those K children from the store and their
\* ids from the parent's array, keeps the other ids, and returns the K ids.
C5_DestroyAssociationArray ==
  (/\ Succeeded("destroyAssociation")
   /\ ArrayField
   /\ ParentExisted
   /\ last.criteria.plain
   /\ last.options = NoOptions
   /\ OnlyReferencedMatch)
    => /\ MatchedBefore \cap DOMAIN store[ChildModel] = {}
       /\ ParentAfter.tags = SeqMinus(ParentBefore.tags, MatchedBefore)
       /\ Len(last.res.items) = Cardinality(MatchedBefore)
       /\ \A i \in 1 .. Len(last.res.items) :
            IF last.res.items[i] = Undefined THEN FALSE
            ELSE last.res.items[i]._id \in MatchedBefore

\* C6: destroyAssociation on a single field destroys the child the parent
\* references, whatever the criteria, empties the parent's field and returns
\* the cleared reference.
C6_DestroyAssociationSingle ==
  (/\ Succeeded("destroyAssociation")
   /\ SingleField
   /\ ParentExisted
   /\ ParentBefore.avatar \in DOMAIN pre[ChildModel])
    => /\ DOMAIN store[ChildModel] = DOMAIN pre[ChildModel] \ {ParentBefore.avatar}
       /\ ParentAfter.avatar = Null
       /\ last.res \in {ResNull, ResOne([_id |-> Null])}

\* C7: updateAssociation on a parent with a non-empty reference applies the
\* values to the referenced children that match the criteria, returns those
\* records as updated, and leaves the parent record unchanged.
C7_UpdateAssociationFrame ==
  (/\ Succeeded("updateAssociation")
   /\ ParentExisted
   /\ last.criteria.plain
   /\ ~last.criteria.hasId
   /\ IF ArrayField THEN ParentBefore.tags # <<>> ELSE ParentBefore.avatar # Null)
    => /\ store[last.model] = pre[last.model]
       /\ \A i \in MatchedBefore : store[ChildModel][i].value = last.values.items[1]
       /\ last.res.kind = "list"
       /\ ResultIds(last.res) = MatchedBefore
       /\ \A i \in 1 .. Len(last.res.items) :
            last.res.items[i].value = last.values.items[1]

\* C8: findAssociation on an existing parent whose reference field is empty
\* returns an empty sequence and makes no store call on the child model.
C8_FindAssociationEmpty ==
  (/\ Succeeded("findAssociation")
   /\ ParentExisted
   /\ IF ArrayField THEN ParentBefore.tags = <<>> ELSE ParentBefore.avatar = Null)
    => /\ last.res = ResList(<<>>)
       /\ \A i \in 1 .. Len(calls) : calls[i][1] # ChildModel

\* the limit in force for the last call
LimitInForce == ModelOptionsLimit(last.options, ConfigDefaultLimit)

\* the records of the model of the last call that matched its criteria
MatchedRecords == {i \in DOMAIN pre[last.model] : Matches(pre[last.model][i], last.criteria)}

\* C9: update with a filter that matches N records, N within the limit,
\* returns exactly those N records with the values applied in the store and
\* in the result, also when they stop matching the filter.
C9_UpdateReturnsMatched ==
  (/\ Succeeded("update")
   /\ last.criteria.plain
   /\ LimitInForce = 0 \/ Cardinality(MatchedRecords) <= LimitInForce)
    => /\ last.res.kind = "list"
       /\ Len(last.res.items) = Cardinality(MatchedRecords)
       /\ ResultIds(last.res) = MatchedRecords
       /\ \A i \in MatchedRecords : store[last.model][i].value = last.values.items[1]
       /\ \A i \in 1 .. Len(last.res.items) :
            last.res.items[i].value = last.values.items[1]

\* C10: destroy with a filter returns the records that matched, as they were,
\* and the find with the same filter that follows returns none of them.
C10_DestroyThenFind ==
  /\ (Succeeded("destroy") /\ last.criteria.plain)
       => /\ last.res.kind = "list"
          /\ Len(last.res.items) = Cardinality(MatchedRecords)
          /\ ResultIds(last.res) = MatchedRecords
          /\ \A i \in 1 .. Len(last.res.items) :
               last.res.items[i] = pre[last.model][last.res.items[i]._id]
  /\ (last.op = "find" /\ prev.op = "destroy" /\ prev.err = OK /\ prev.criteria.plain)
       => /\ last.err = OK
          /\ ResultIds(last.res) \cap ResultIds(prev.res) = {}

C10_Witness ==
  /\ last.op = "find"
  /\ last.err = OK
  /\ prev.op = "destroy"
  /\ prev.criteria = ByValue("a")
  /\ Len(prev.res.items) >= 2
  /\ DOMAIN store["Tag"] # {}

C13_CreateFindRoundTrip ==
  (/\ last.op = "find" /\ prev.op = "create"
   /\ prev.err = OK /\ prev.res.kind = "one"
   /\ last.criteria = Scalar(prev.res.items[1]._id))
    => /\ last.err = OK
       /\ last.res.kind = "one"
       /\ last.res.items[1]._id = prev.res.items[1]._id
       /\ last.res.items[1].value = prev.values.items[1]
       /\ last.res = prev.res

\* the round trip with the value that is not the schema's default
C13_Witness ==
  /\ last.op = "find" /\ prev.op = "create"
  /\ prev.err = OK /\ prev.res.kind = "one"
  /\ last.criteria = Scalar(prev.res.items[1]._id)
  /\ prev.values = One("b")

\* the four errors of the checks every association method starts with
PrerequisiteErrors ==
  {ModelNotFound, ParentIdMissing, ReferenceNotFound, ParentRecordNotFound}

\* the reference field of the last call names a child model the application has
ReferenceUsable == ChildModel # "" /\ ChildModel \in AppOrm

\* C14: findAssociation on a parent model with a reference field loads the
\* parent from that model's own collection: it fails with "No parent record
\* found" exactly when the model has no record with that id, and otherwise
\* returns the children the parent references that match the criteria.
C14_FindAssociationOwnParent ==
  (/\ last.op = "findAssociation"
   /\ _getModel(last.model) # NoModel
   /\ last.parentId # Null
   /\ ReferenceUsable
   /\ last.criteria.plain /\ ~last.criteria.hasId)
    => /\ last.err = ParentRecordNotFound <=> ~ParentExisted
       /\ ParentExisted =>
            /\ last.err = OK
            /\ last.res.kind = "list"
            /\ ResultIds(last.res) = MatchedBefore

\* the first prerequisite of the last call that does not hold, OK if all hold
FirstFailing ==
  IF _getModel(last.model) = NoModel THEN ModelNotFound
  ELSE IF last.parentId = Null THEN ParentIdMissing
  ELSE IF ChildModel = "" THEN ReferenceNotFound
  ELSE IF ~ParentExisted THEN ParentRecordNotFound
  ELSE OK

\* C17: an association operation reports the first prerequisite that fails, in
\* the order parent model, parentId, reference field, parent record; it
\* reports none of them when all four hold; and the store is unchanged when
\* it fails with one of them.
C17_PrerequisiteOrder ==
  (/\ last.op \in AssociationOps
   /\ ChildModel = "" \/ ChildModel \in AppOrm)
    => /\ FirstFailing # OK => last.err = FirstFailing
       /\ FirstFailing = OK => last.err \notin PrerequisiteErrors
       /\ last.err \in PrerequisiteErrors => store = pre

\* the parent record the last call loaded: findAssociation reads it from the
\* User collection, the other methods from the parent model's collection
LoadedFrom == IF last.op = "findAssociation" THEN "User" ELSE last.model
LoadedParent == pre[LoadedFrom][last.parentId]

\* the ids in the reference field of the loaded parent
LoadedReferences ==
  IF ArrayField THEN Range(LoadedParent.tags) ELSE {LoadedParent.avatar}

\* C20: findAssociation and updateAssociation return and modify only children
\* whose ids are in the reference field of the parent they loaded, also when
\* the criteria carries an _id key.
C20_OnlyReferencedChildren ==
  (/\ last.op \in {"findAssociation", "updateAssociation"}
   /\ last.err = OK
   /\ ReferenceUsable
   /\ last.parentId \in DOMAIN pre[LoadedFrom])
    => /\ last.res.kind \in {"one", "list"} =>
            ResultIds(last.res) \subseteq LoadedReferences
       /\ \A i \in DOMAIN pre[ChildModel] :
            store[ChildModel][i] # pre[ChildModel][i] => i \in LoadedReferences

\* the records of the model of the last call that the call changed
ModifiedRecords ==
  {i \in DOMAIN pre[last.model] :
     i \notin DOMAIN store[last.model] \/ store[last.model][i] # pre[last.model][i]}

\* C18: with a default limit L in force, a find with a filter returns at most
\* L records, all of them matching; an update with a filter selects at most
\* L matching ids: it changes at most L records, every record it changes is
\* among the ones it returns, and it returns at most L records.
C18_DefaultLimitCaps ==
  /\ (/\ Succeeded("find")
      /\ last.criteria.plain /\ ~last.options.findOne
      /\ LimitInForce # 0)
       => /\ last.res.kind = "list"
          /\ Len(last.res.items) <= LimitInForce
          /\ ResultIds(last.res) \subseteq MatchedRecords
          /\ Cardinality(MatchedRecords) >= LimitInForce
               => Len(last.res.items) = LimitInForce
  /\ (/\ Succeeded("update")
      /\ last.criteria.plain
      /\ LimitInForce # 0)
       => /\ last.res.kind = "list"
          /\ Len(last.res.items) <= LimitInForce
          /\ ResultIds(last.res) \subseteq MatchedRecords
          /\ Cardinality(ModifiedRecords) <= LimitInForce
          /\ ModifiedRecords \subseteq ResultIds(last.res)
          /\ DOMAIN store[last.model] = DOMAIN pre[last.model]

\* an update whose filter matches more records than the limit, and that
\* changed a record
C18_Witness ==
  /\ Succeeded("update")
  /\ last.criteria.plain
  /\ LimitInForce = LimitChoice
  /\ Cardinality(MatchedRecords) > LimitInForce
  /\ Len(last.res.items) = LimitInForce
  /\ ModifiedRecords # {}

\* the children that matched the criteria of the last call, referenced or not
MatchedChildren ==
  {i \in DOMAIN pre[ChildModel] : Matches(pre[ChildModel][i], last.criteria)}

\* the children the last call removed from the store
DestroyedChildren == DOMAIN pre[ChildModel] \ DOMAIN store[ChildModel]

-----------------------------------------------------------------------------
(* Properties of concurrent calls *)

\* both calls are association calls, on different parents
DifferentParents ==
  /\ procs # NoProcs
  /\ \A p \in ProcIds : procs[p].kind \in AssociationOps
  /\ <<procs[1].model, procs[1].parentId>> # <<procs[2].model, procs[2].parentId>>

\* the children the parent of call q references now
ReferencedBy(q) ==
  Range(store[procs[q].model][procs[q].parentId].tags) \cap DOMAIN store["Tag"]

\* C12: a step of an association call leaves the parent record of a
\* concurrent association call on another parent as it is, and leaves every
\* child that parent references in the store.
C12_NoInterference ==
  [][\A p \in ProcIds :
       (DifferentParents /\ procs'[p] # procs[p] /\ procs[Other(p)].pc # "load")
         => LET q == Other(p)
            IN  /\ store'[procs[q].model][procs[q].parentId]
                     = store[procs[q].model][procs[q].parentId]
                /\ ReferencedBy(q) \subseteq DOMAIN store'["Tag"]]_vars

\* C15: a destroy with a filter that has completed removed from the store
\* exactly the records it read and returns.
C15_DestroyRemovesWhatItRead ==
  \A p \in DOMAIN procs :
    (procs[p].kind = "destroy" /\ procs[p].pc = "done")
      => procs[p].removed = procs[p].read

\* two createAssociation calls on the same parent
SameParentCreates ==
  /\ procs # NoProcs
  /\ \A p \in ProcIds : procs[p].kind = "createAssociation"
  /\ <<procs[1].model, procs[1].parentId>> = <<procs[2].model, procs[2].parentId>>

\* both calls loaded the parent with the same array
BothLoadedSame ==
  /\ \A p \in ProcIds : procs[p].pc \in {"createChild", "savePush", "done"}
  /\ procs[1].record = procs[2].record

BothDone == \A p \in ProcIds : procs[p].pc = "done" /\ procs[p].err = OK

\* the array of the parent of call p as persisted
PersistedTags(p) == store[procs[p].model][procs[p].parentId].tags

====
